---- MODULE Spec2Model ----
(***************************************************************************)
(* EMG Hammer Game (src/emg_hammer_game.py): the trial/session controller,  *)
(* the lock-guarded sample buffer shared by the device callback thread and *)
(* the GUI thread, and the pickled leaderboard.                            *)
(*                                                                         *)
(* Handlers (Qt slots, timer callbacks, the device callback) are actions;  *)
(* a handler may be invoked whenever the GUI thread is dispatching events, *)
(* which includes the nested event loop run by QDialog.exec().  Sample     *)
(* amplitudes are multiples of 0.01 V and the clock counts whole seconds.  *)
(***************************************************************************)
EXTENDS Integers, Sequences, FiniteSets, TLC

VARIABLES
    pc,             \* GUI thread: "setup", "fields", "load" (inside __init__),
                    \* "loop" (dispatching events), "sim", "read" (inside
                    \* update_game), "crashed" (unhandled exception in a slot)
    subscribed,     \* handle_emg_data is subscribed to a device websocket
    use_sim_emg,    \* self.use_sim_emg
    state,          \* self.state
    current_try,    \* self.current_try
    try_start_time, \* self.try_start_time
    peak_this_try,  \* self.peak_this_try
    try_scores,     \* self.try_scores
    emg_buffer,     \* self.emg_buffer (<< >> while the attribute does not exist)
    emg_lock,       \* self.emg_lock: "none" (not created), "free", "dev"
    dev_pc,         \* device callback thread: "idle", "rolled" (between lines 261 and 262),
                    \* "raised" (an exception left the callback)
    dev_samples,    \* the samples the callback thread is appending
    start_enabled,  \* self.start_btn.isEnabled()
    timer_active,   \* self.timer.isActive()
    pending_shots,  \* QTimer.singleShot(2400, start_active_trial) calls not yet fired
    dialogs,        \* finish_game frames blocked in dialog.exec(): their local `best`
    leaderboard,    \* self.leaderboard
    file,           \* leaderboard.pkl: [status |-> "missing"|"corrupt"|"ok", data |-> entries]
    now,            \* what time.time() returns
    last_call,      \* the GUI handler that ran last, and self.state when it was entered
    form,           \* ContactDialog: what self.first.text() and self.last.text() return
    real_elapsed    \* seconds that really passed since Active was entered, counted up
                    \* to TRY_DURATION (0 outside Active)

vars == <<pc, subscribed, use_sim_emg, state, current_try, try_start_time,
          peak_this_try, try_scores, emg_buffer, emg_lock, dev_pc, dev_samples,
          start_enabled, timer_active, pending_shots, dialogs,
          leaderboard, file, now, last_call, form, real_elapsed>>

game == <<state, current_try, try_start_time, peak_this_try, try_scores>>
buf == <<emg_buffer, emg_lock, dev_pc, dev_samples>>
board == <<leaderboard, file>>

-----------------------------------------------------------------------------
(* Program constants *)
TRY_DURATION == 1    \* seconds, scaled down
N_TRIES == 3
BASELINE_RMS == 2           \* 0.02 V, in units of 0.01 V
MAX_EXPECTED_RMS == 1000    \* 10 V, in units of 0.01 V

(* Bounds of the model *)
buffer_len == 2     \* int(BUFFER_SEC * FS), scaled down
win == 1            \* int(RMS_WIN_SEC * FS), scaled down
sim_n == 1          \* int(CHUNK_SEC * FS), scaled down
MaxTime == 3        \* largest clock reading
MaxDialogs == 1     \* largest number of nested dialog.exec() frames
MaxEntries == 2     \* largest leaderboard
MaxFile == 1        \* largest leaderboard file found at startup
MaxFirst == 2       \* longest text of the first-name field
MaxLast == 4        \* longest text of the last-name field

Samples == {0, 1000}        \* sample amplitudes, in units of 0.01 V
None == 0 - 1               \* try_start_time = None

-----------------------------------------------------------------------------
(* Sequences *)
RECURSIVE SeqsUpTo(_, _)
SeqsUpTo(S, k) ==
    IF k = 0 THEN {<< >>}
    ELSE LET shorter == SeqsUpTo(S, k - 1)
         IN shorter \cup {Append(s, x) : s \in {t \in shorter : Len(t) = k - 1}, x \in S}

RECURSIVE SeqMax(_)
SeqMax(s) ==
    IF Len(s) = 1 THEN s[1]
    ELSE LET m == SeqMax(Tail(s)) IN IF s[1] >= m THEN s[1] ELSE m

Max(a, b) == IF a >= b THEN a ELSE b
Min(a, b) == IF a <= b THEN a ELSE b
-----------------------------------------------------------------------------
(* Sample buffer: lines 250-262 *)

\* the shift left out
RollNone(b, k) == b

\* np.roll(buffer, -k)
Roll(b, k) == [i \in 1..Len(b) |-> b[((i - 1 + k) % Len(b)) + 1]]

\* buffer[-k:] = samples, for 0 < k <= Len(buffer)
FillTail(b, s) ==
    [i \in 1..Len(b) |-> IF i > Len(b) - Len(s) THEN s[i - (Len(b) - Len(s))] ELSE b[i]]

\* x[-k:] for k > 0: the last k elements, all of x when k >= len(x)
LastN(x, k) == IF k >= Len(x) THEN x ELSE SubSeq(x, Len(x) - k + 1, Len(x))

-----------------------------------------------------------------------------
(* Estimator and score mapping: lines 237-244 *)

RECURSIVE SumSq(_)
SumSq(w) == IF w = << >> THEN 0 ELSE w[1] * w[1] + SumSq(Tail(w))

\* floor of the square root, by bisection on lo <= r < hi
RECURSIVE IsqrtIn(_, _, _)
IsqrtIn(x, lo, hi) ==
    IF hi - lo <= 1 THEN lo
    ELSE LET mid == (lo + hi) \div 2
         IN IF mid * mid <= x THEN IsqrtIn(x, mid, hi) ELSE IsqrtIn(x, lo, mid)

\* np.sqrt(np.mean(w ** 2)), rounded down to 0.01 V
Rms(w) == IsqrtIn(SumSq(w) \div Len(w), 0, 40000)

\* np.clip(x, lo, hi)
Clip(x, lo, hi) == IF x < lo THEN lo ELSE IF x > hi THEN hi ELSE x

\* int(1000 * (p ** 0.85)) for p = k / (MAX_EXPECTED_RMS - BASELINE_RMS),
\* tabulated for k = 0 .. MAX_EXPECTED_RMS - BASELINE_RMS (entry k + 1)
Pow085 == <<
    0, 2, 5, 7, 9, 11, 12, 14, 16, 18, 19, 21, 23, 24, 26, 28, 29, 31, 32, 34,
    36, 37, 39, 40, 42, 43, 45, 46, 47, 49, 50, 52, 53, 55, 56, 57, 59, 60, 62, 63,
    64, 66, 67, 69, 70, 71, 73, 74, 75, 77, 78, 79, 81, 82, 83, 85, 86, 87, 89, 90,
    91, 92, 94, 95, 96, 98, 99, 100, 101, 103, 104, 105, 107, 108, 109, 110, 112, 113, 114, 115,
    117, 118, 119, 120, 122, 123, 124, 125, 126, 128, 129, 130, 131, 133, 134, 135, 136, 137, 139, 140,
    141, 142, 143, 145, 146, 147, 148, 149, 151, 152, 153, 154, 155, 156, 158, 159, 160, 161, 162, 164,
    165, 166, 167, 168, 169, 171, 172, 173, 174, 175, 176, 177, 179, 180, 181, 182, 183, 184, 186, 187,
    188, 189, 190, 191, 192, 194, 195, 196, 197, 198, 199, 200, 201, 203, 204, 205, 206, 207, 208, 209,
    210, 212, 213, 214, 215, 216, 217, 218, 219, 221, 222, 223, 224, 225, 226, 227, 228, 229, 230, 232,
    233, 234, 235, 236, 237, 238, 239, 240, 241, 243, 244, 245, 246, 247, 248, 249, 250, 251, 252, 253,
    255, 256, 257, 258, 259, 260, 261, 262, 263, 264, 265, 266, 267, 269, 270, 271, 272, 273, 274, 275,
    276, 277, 278, 279, 280, 281, 282, 284, 285, 286, 287, 288, 289, 290, 291, 292, 293, 294, 295, 296,
    297, 298, 299, 300, 302, 303, 304, 305, 306, 307, 308, 309, 310, 311, 312, 313, 314, 315, 316, 317,
    318, 319, 320, 321, 322, 323, 325, 326, 327, 328, 329, 330, 331, 332, 333, 334, 335, 336, 337, 338,
    339, 340, 341, 342, 343, 344, 345, 346, 347, 348, 349, 350, 351, 352, 353, 354, 355, 356, 357, 358,
    359, 361, 362, 363, 364, 365, 366, 367, 368, 369, 370, 371, 372, 373, 374, 375, 376, 377, 378, 379,
    380, 381, 382, 383, 384, 385, 386, 387, 388, 389, 390, 391, 392, 393, 394, 395, 396, 397, 398, 399,
    400, 401, 402, 403, 404, 405, 406, 407, 408, 409, 410, 411, 412, 413, 414, 415, 416, 417, 418, 419,
    420, 421, 422, 423, 424, 425, 426, 427, 428, 429, 430, 431, 432, 433, 434, 435, 436, 437, 438, 439,
    440, 441, 442, 443, 444, 445, 446, 446, 447, 448, 449, 450, 451, 452, 453, 454, 455, 456, 457, 458,
    459, 460, 461, 462, 463, 464, 465, 466, 467, 468, 469, 470, 471, 472, 473, 474, 475, 476, 477, 478,
    479, 480, 481, 482, 483, 484, 484, 485, 486, 487, 488, 489, 490, 491, 492, 493, 494, 495, 496, 497,
    498, 499, 500, 501, 502, 503, 504, 505, 506, 507, 508, 509, 510, 511, 511, 512, 513, 514, 515, 516,
    517, 518, 519, 520, 521, 522, 523, 524, 525, 526, 527, 528, 529, 530, 531, 532, 532, 533, 534, 535,
    536, 537, 538, 539, 540, 541, 542, 543, 544, 545, 546, 547, 548, 549, 550, 551, 551, 552, 553, 554,
    555, 556, 557, 558, 559, 560, 561, 562, 563, 564, 565, 566, 567, 567, 568, 569, 570, 571, 572, 573,
    574, 575, 576, 577, 578, 579, 580, 581, 582, 583, 583, 584, 585, 586, 587, 588, 589, 590, 591, 592,
    593, 594, 595, 596, 597, 597, 598, 599, 600, 601, 602, 603, 604, 605, 606, 607, 608, 609, 610, 610,
    611, 612, 613, 614, 615, 616, 617, 618, 619, 620, 621, 622, 623, 623, 624, 625, 626, 627, 628, 629,
    630, 631, 632, 633, 634, 635, 635, 636, 637, 638, 639, 640, 641, 642, 643, 644, 645, 646, 647, 647,
    648, 649, 650, 651, 652, 653, 654, 655, 656, 657, 658, 658, 659, 660, 661, 662, 663, 664, 665, 666,
    667, 668, 669, 669, 670, 671, 672, 673, 674, 675, 676, 677, 678, 679, 680, 680, 681, 682, 683, 684,
    685, 686, 687, 688, 689, 690, 690, 691, 692, 693, 694, 695, 696, 697, 698, 699, 700, 700, 701, 702,
    703, 704, 705, 706, 707, 708, 709, 709, 710, 711, 712, 713, 714, 715, 716, 717, 718, 719, 719, 720,
    721, 722, 723, 724, 725, 726, 727, 728, 728, 729, 730, 731, 732, 733, 734, 735, 736, 737, 737, 738,
    739, 740, 741, 742, 743, 744, 745, 746, 746, 747, 748, 749, 750, 751, 752, 753, 754, 754, 755, 756,
    757, 758, 759, 760, 761, 762, 763, 763, 764, 765, 766, 767, 768, 769, 770, 771, 771, 772, 773, 774,
    775, 776, 777, 778, 779, 779, 780, 781, 782, 783, 784, 785, 786, 787, 787, 788, 789, 790, 791, 792,
    793, 794, 795, 795, 796, 797, 798, 799, 800, 801, 802, 803, 803, 804, 805, 806, 807, 808, 809, 810,
    810, 811, 812, 813, 814, 815, 816, 817, 818, 818, 819, 820, 821, 822, 823, 824, 825, 825, 826, 827,
    828, 829, 830, 831, 832, 833, 833, 834, 835, 836, 837, 838, 839, 840, 840, 841, 842, 843, 844, 845,
    846, 847, 847, 848, 849, 850, 851, 852, 853, 854, 854, 855, 856, 857, 858, 859, 860, 861, 861, 862,
    863, 864, 865, 866, 867, 868, 868, 869, 870, 871, 872, 873, 874, 875, 875, 876, 877, 878, 879, 880,
    881, 882, 882, 883, 884, 885, 886, 887, 888, 889, 889, 890, 891, 892, 893, 894, 895, 895, 896, 897,
    898, 899, 900, 901, 902, 902, 903, 904, 905, 906, 907, 908, 908, 909, 910, 911, 912, 913, 914, 915,
    915, 916, 917, 918, 919, 920, 921, 921, 922, 923, 924, 925, 926, 927, 927, 928, 929, 930, 931, 932,
    933, 934, 934, 935, 936, 937, 938, 939, 940, 940, 941, 942, 943, 944, 945, 946, 946, 947, 948, 949,
    950, 951, 952, 952, 953, 954, 955, 956, 957, 958, 958, 959, 960, 961, 962, 963, 964, 964, 965, 966,
    967, 968, 969, 970, 970, 971, 972, 973, 974, 975, 976, 976, 977, 978, 979, 980, 981, 982, 982, 983,
    984, 985, 986, 987, 988, 988, 989, 990, 991, 992, 993, 994, 994, 995, 996, 997, 998, 999, 1000 >>

\* the baseline not subtracted
ScoreFromZero(rms) ==
    Pow085[Clip(rms, 0, MAX_EXPECTED_RMS - BASELINE_RMS) + 1]

\* lines 241-244: the numerator of p, clipped to [0, 1], then the curve
Score(rms) ==
    Pow085[Clip(rms - BASELINE_RMS, 0, MAX_EXPECTED_RMS - BASELINE_RMS) + 1]

-----------------------------------------------------------------------------
(* Leaderboard: line 314, list.sort(key=score, reverse=True), a stable sort *)

\* x placed after every element whose score is >= its own
RECURSIVE InsertDesc(_, _)
InsertDesc(s, x) ==
    IF s = << >> THEN <<x>>
    ELSE IF s[1].score >= x.score THEN <<s[1]>> \o InsertDesc(Tail(s), x)
    ELSE <<x>> \o s

RECURSIVE SortDescFrom(_, _)
SortDescFrom(done, rest) ==
    IF rest = << >> THEN done
    ELSE SortDescFrom(InsertDesc(done, rest[1]), Tail(rest))

SortDesc(s) == SortDescFrom(<< >>, s)

-----------------------------------------------------------------------------
(* Contact dialog: get_entry, lines 359-373.  A text is a sequence of       *)
(* characters.                                                              *)
Chars == {"j", "O", "7", "ß"}

\* str.isalpha
IsAlpha(c) == c \in {"j", "O", "ß"}

\* str.upper of one character: "ß".upper() is "SS"
Upper(c) ==
    IF c = "j" THEN <<"J">>
    ELSE IF c = "n" THEN <<"N">>
    ELSE IF c = "o" THEN <<"O">>
    ELSE IF c = "ß" THEN <<"S", "S">>
    ELSE <<c>>

RECURSIVE UpperAll(_)
UpperAll(s) == IF s = << >> THEN << >> ELSE Upper(s[1]) \o UpperAll(Tail(s))

\* "".join(filter(str.isalpha, text)) or placeholder
Letters(text, placeholder) ==
    LET kept == SelectSeq(text, IsAlpha) IN IF kept = << >> THEN placeholder ELSE kept

\* x[:k]
FirstN(x, k) == IF k >= Len(x) THEN x ELSE SubSeq(x, 1, k)

\* the slice last[:3] left out
DisplayNameWhole(first_text, last_text) ==
    LET first == Letters(first_text, <<"X">>)
        last == Letters(last_text, <<"A", "n", "o", "n">>)
    IN UpperAll(<<first[1]>> \o last)

\* lines 360-362
DisplayName(first_text, last_text) ==
    LET first == Letters(first_text, <<"X">>)
        last == Letters(last_text, <<"A", "n", "o", "n">>)
    IN UpperAll(<<first[1]>> \o FirstN(last, 3))

\* what the player types at the end of a session
Forms == {[first |-> <<"j">>, last |-> <<"O", "j", "O", "7">>]}
Names == {DisplayName(f.first, f.last) : f \in Forms}

-----------------------------------------------------------------------------
\* the slice [-self.buffer_len:] left out and the shift replaced by a concatenation
AppendSamplesNoTrim(b, s) == IF Len(s) = 0 THEN b ELSE IF Len(s) >= buffer_len THEN s ELSE b \o s

(* Sample buffer, whole append: lines 250-262 *)
AppendSamples(b, s) ==
    IF Len(s) = 0 THEN b
    ELSE IF Len(s) >= buffer_len THEN LastN(s, buffer_len)
    ELSE FillTail(Roll(b, Len(s)), s)

Zeros == [i \in 1..buffer_len |-> 0]     \* np.zeros(self.buffer_len)

Entry(name, score) == [name |-> name, score |-> score]      \* lines 364-373
FileEntries == {Entry(nm, sc) : nm \in Names, sc \in {Score(0), Score(MAX_EXPECTED_RMS)}}
Missing == [status |-> "missing", data |-> << >>]
Corrupt == [status |-> "corrupt", data |-> << >>]
Pickled(lb) == [status |-> "ok", data |-> lb]               \* pickle.dump(self.leaderboard, f)
InitFiles == {Missing, Corrupt} \cup {Pickled(d) : d \in SeqsUpTo(FileEntries, MaxFile)}

DeviceBatches == SeqsUpTo(Samples, buffer_len + 1)  \* what one callback can deliver
AppendValues == Samples \cup {500}
Batches == SeqsUpTo(AppendValues, buffer_len + 2)   \* arguments of _append_emg_samples

Call(handler) == [name |-> handler, at |-> state]

-----------------------------------------------------------------------------
Init ==
    /\ pc = "setup"
    /\ subscribed = FALSE
    /\ use_sim_emg = FALSE
    /\ state = "unset"
    /\ current_try = 0
    /\ try_start_time = None
    /\ peak_this_try = 0
    /\ try_scores = << >>
    /\ emg_buffer = << >>
    /\ emg_lock = "none"
    /\ dev_pc = "idle"
    /\ dev_samples = << >>
    /\ start_enabled = FALSE
    /\ timer_active = FALSE
    /\ pending_shots = 0
    /\ dialogs = << >>
    /\ leaderboard = << >>
    /\ file \in InitFiles
    /\ now = 0
    /\ last_call = [name |-> "none", at |-> "unset"]
    /\ form \in Forms
    /\ real_elapsed = 0

(* __init__, line 103: setup_emgeniusclient, lines 77-95 *)
setup_emgeniusclient ==
    /\ pc = "setup"
    /\ \E device \in BOOLEAN :
          /\ subscribed' = device
          /\ use_sim_emg' = IF device THEN FALSE ELSE use_sim_emg
    /\ pc' = "fields"
    /\ last_call' = Call("setup_emgeniusclient")
    /\ UNCHANGED <<game, buf, start_enabled, timer_active, pending_shots, dialogs, board, now, form, real_elapsed>>

(* __init__, lines 106-115 *)
init_fields ==
    /\ pc = "fields"
    /\ state' = "idle"
    /\ current_try' = 0
    /\ try_start_time' = None
    /\ peak_this_try' = 0
    /\ try_scores' = << >>
    /\ emg_buffer' = Zeros
    /\ emg_lock' = "free"
    /\ use_sim_emg' = TRUE
    /\ pc' = "load"
    /\ last_call' = Call("__init__")
    /\ UNCHANGED <<subscribed, dev_pc, dev_samples, start_enabled, timer_active,
                   pending_shots, dialogs, board, now, form, real_elapsed>>

(* update_leaderboard, line 314 *)
update_leaderboard(lb) == SortDesc(lb)

\* the except clause of lines 305-306 left out
load_leaderboard_uncaught ==
    /\ pc = "load"
    /\ start_enabled' = TRUE
    /\ leaderboard' = update_leaderboard(file.data)
    /\ timer_active' = FALSE
    /\ pc' = IF file.status = "ok" THEN "loop" ELSE "crashed"
    /\ last_call' = Call("load_leaderboard")
    /\ UNCHANGED <<subscribed, use_sim_emg, game, buf, pending_shots, dialogs, file, now, form, real_elapsed>>

(* __init__, lines 118-124: init_ui, load_leaderboard (lines 301-307), the timer *)
load_leaderboard ==
    /\ pc = "load"
    /\ start_enabled' = TRUE
    /\ leaderboard' = update_leaderboard(IF file.status = "ok" THEN file.data ELSE << >>)
    /\ timer_active' = FALSE
    /\ pc' = "loop"
    /\ last_call' = Call("load_leaderboard")
    /\ UNCHANGED <<subscribed, use_sim_emg, game, buf, pending_shots, dialogs, file, now, form, real_elapsed>>

-----------------------------------------------------------------------------
\* the append done without taking the lock
AcquiredNothing(who) == "free"

\* lines 256, 260: `with self.emg_lock`, entered by `who`
Acquired(who) == who

(* Device callback thread: handle_emg_data, lines 65-75, and                *)
(* _append_emg_samples, lines 250-262                                       *)
handle_emg_data ==
    /\ pc # "crashed"
    /\ subscribed
    /\ dev_pc = "idle"
    /\ \E samples \in DeviceBatches :
          IF Len(samples) = 0
          THEN UNCHANGED buf
          ELSE IF emg_lock = "none"
          THEN \* self.buffer_len does not exist yet: line 255 raises AttributeError
               /\ dev_pc' = "raised"
               /\ UNCHANGED <<emg_buffer, emg_lock, dev_samples>>
          ELSE /\ emg_lock = "free"
               /\ IF Len(samples) >= buffer_len
                  THEN /\ emg_buffer' = AppendSamples(emg_buffer, samples)
                       /\ UNCHANGED <<emg_lock, dev_pc, dev_samples>>
                  ELSE /\ emg_lock' = Acquired("dev")
                       /\ emg_buffer' = Roll(emg_buffer, Len(samples))
                       /\ dev_pc' = "rolled"
                       /\ dev_samples' = samples
    /\ UNCHANGED <<pc, subscribed, use_sim_emg, game, start_enabled, timer_active,
                   pending_shots, dialogs, board, now, form, real_elapsed, last_call>>

(* the AttributeError leaves handle_emg_data and ends up in the SDK's thread *)
callback_raised ==
    /\ pc # "crashed"
    /\ dev_pc = "raised"
    /\ dev_pc' = "idle"
    /\ UNCHANGED <<pc, subscribed, use_sim_emg, game, emg_buffer, emg_lock, dev_samples,
                   start_enabled, timer_active, pending_shots, dialogs, board, now, form,
                   real_elapsed, last_call>>

(* line 262, then the lock is released *)
append_fill ==
    /\ pc # "crashed"
    /\ dev_pc = "rolled"
    /\ emg_buffer' = FillTail(emg_buffer, dev_samples)
    /\ emg_lock' = "free"
    /\ dev_pc' = "idle"
    /\ dev_samples' = << >>
    /\ UNCHANGED <<pc, subscribed, use_sim_emg, game, start_enabled, timer_active,
                   pending_shots, dialogs, board, now, form, real_elapsed, last_call>>
-----------------------------------------------------------------------------
(* GUI thread: the slots and timer callbacks *)

\* the state test left out
CanStartAlways == TRUE

\* line 193
CanStart == state = "idle"

(* on_start_pressed, lines 192-195, and begin_countdown, lines 197-205 *)
on_start_pressed ==
    /\ pc = "loop"
    /\ last_call' = Call("on_start_pressed")
    /\ IF CanStart
       THEN /\ current_try' = current_try + 1
            /\ state' = "countdown"
            /\ start_enabled' = FALSE
            /\ pending_shots' = pending_shots + 1
            /\ UNCHANGED <<try_start_time, peak_this_try, try_scores>>
       ELSE UNCHANGED <<game, start_enabled, pending_shots>>
    /\ UNCHANGED <<pc, subscribed, use_sim_emg, buf, timer_active, dialogs, board, now, form, real_elapsed>>

(* start_active_trial, lines 207-214, fired by the single-shot timer of line 205 *)
start_active_trial ==
    /\ pc = "loop"
    /\ pending_shots > 0
    /\ pending_shots' = pending_shots - 1
    /\ state' = "active"
    /\ peak_this_try' = 0
    /\ try_start_time' = now
    /\ timer_active' = TRUE
    /\ real_elapsed' = 0
    /\ last_call' = Call("start_active_trial")
    /\ UNCHANGED <<pc, subscribed, use_sim_emg, current_try, try_scores, buf, start_enabled,
                   dialogs, board, now, form>>

\* lines 220-221
Remaining == TRY_DURATION - (now - try_start_time)

\* the comparison off by one
TimedOutLate == TRY_DURATION - (now - try_start_time) < 0

\* line 224
TimedOut == Remaining <= 0

\* line 269
MoreTries == current_try < N_TRIES

\* line 287
Best(scores) == SeqMax(scores)

(* the guard of lines 217-218 left out *)
update_game_unguarded ==
    /\ pc = "loop"
    /\ last_call' = Call("update_game")
    /\ IF TimedOut
       THEN /\ MoreTries \/ Len(dialogs) < MaxDialogs
            /\ timer_active' = FALSE
            /\ try_scores' = Append(try_scores, peak_this_try)
            /\ state' = "idle"
            /\ real_elapsed' = 0
            /\ IF MoreTries
               THEN start_enabled' = TRUE /\ UNCHANGED dialogs
               ELSE dialogs' = Append(dialogs, Best(try_scores')) /\ UNCHANGED start_enabled
            /\ UNCHANGED <<pc, current_try, try_start_time, peak_this_try>>
       ELSE /\ pc' = IF use_sim_emg THEN "sim" ELSE "read"
            /\ UNCHANGED <<game, start_enabled, timer_active, dialogs, real_elapsed>>
    /\ UNCHANGED <<subscribed, use_sim_emg, buf, pending_shots, board, now, form>>

(* update_game, lines 216-228: the guard, the timeout, finish_attempt (lines     *)
(* 264-273) and finish_game up to dialog.exec() (lines 287-290); otherwise on to *)
(* the simulation and the window read                                           *)
update_game ==
    /\ pc = "loop"
    /\ last_call' = Call("update_game")
    /\ IF state # "active"
       THEN UNCHANGED <<pc, game, start_enabled, timer_active, dialogs, real_elapsed>>
       ELSE IF TimedOut
       THEN /\ MoreTries \/ Len(dialogs) < MaxDialogs
            /\ timer_active' = FALSE
            /\ try_scores' = Append(try_scores, peak_this_try)
            /\ state' = "idle"
            /\ real_elapsed' = 0
            /\ IF MoreTries
               THEN start_enabled' = TRUE /\ UNCHANGED dialogs
               ELSE dialogs' = Append(dialogs, Best(try_scores')) /\ UNCHANGED start_enabled
            /\ UNCHANGED <<pc, current_try, try_start_time, peak_this_try>>
       ELSE /\ pc' = IF use_sim_emg THEN "sim" ELSE "read"
            /\ UNCHANGED <<game, start_enabled, timer_active, dialogs, real_elapsed>>
    /\ UNCHANGED <<subscribed, use_sim_emg, buf, pending_shots, board, now, form>>

(* update_game, lines 231-235: the simulated chunk *)
simulate_emg ==
    /\ pc = "sim"
    /\ emg_lock = "free"
    /\ \E x \in [1..sim_n -> Samples] : emg_buffer' = AppendSamples(emg_buffer, x)
    /\ pc' = "read"
    /\ UNCHANGED <<subscribed, use_sim_emg, game, emg_lock, dev_pc, dev_samples,
                   start_enabled, timer_active, pending_shots, dialogs, board, now, form, real_elapsed, last_call>>

\* the peak overwritten by the latest score
NewPeakLatest(peak, score) == score

\* line 245
NewPeak(peak, score) == Max(peak, score)

(* update_game, lines 237-248: the window read under the lock, the score, the peak *)
read_window ==
    /\ pc = "read"
    /\ emg_lock = "free"
    /\ peak_this_try' = NewPeak(peak_this_try, Score(Rms(LastN(emg_buffer, win))))
    /\ pc' = "loop"
    /\ UNCHANGED <<subscribed, use_sim_emg, state, current_try, try_start_time, try_scores,
                   buf, start_enabled, timer_active, pending_shots, dialogs, board, now, form, real_elapsed,
                   last_call>>

(* finish_game, lines 290-299, from the return of dialog.exec() on *)
finish_game ==
    /\ pc = "loop"
    /\ dialogs # << >>
    /\ last_call' = Call("finish_game")
    /\ LET best == dialogs[Len(dialogs)]
           reset == /\ current_try' = 0
                    /\ try_scores' = << >>
                    /\ start_enabled' = TRUE
                    /\ dialogs' = SubSeq(dialogs, 1, Len(dialogs) - 1)
                    /\ UNCHANGED pc
       IN \/ \* the dialog was not accepted
             /\ reset
             /\ UNCHANGED board
          \/ \* accepted: lines 291-294
             /\ Len(leaderboard) < MaxEntries
             /\ \E nm \in {DisplayName(form.first, form.last)} :
                  LET appended == Append(leaderboard, Entry(nm, best))
                  IN \/ /\ file' = Pickled(appended)
                        /\ leaderboard' = update_leaderboard(appended)
                        /\ reset
                     \/ \* save_leaderboard raises: the slot dies at line 293
                        /\ leaderboard' = appended
                        /\ file' \in {file, Corrupt}
                        /\ pc' = "crashed"
                        /\ UNCHANGED <<current_try, try_scores, start_enabled, dialogs>>
    /\ UNCHANGED <<subscribed, use_sim_emg, state, try_start_time, peak_this_try, buf,
                   timer_active, pending_shots, now, form, real_elapsed>>

(* time.time() moves on *)
clock ==
    /\ pc # "crashed"
    /\ now < MaxTime
    /\ now' = now + 1
    /\ real_elapsed' = IF state = "active" THEN Min(real_elapsed + 1, TRY_DURATION) ELSE 0
    /\ UNCHANGED <<pc, subscribed, use_sim_emg, game, buf, start_enabled, timer_active,
                   pending_shots, dialogs, board, last_call, form>>

(* time.time() is the system clock, which can be set back *)
clock_set_back ==
    /\ pc # "crashed"
    /\ \E t \in 0..(now - 1) : now' = t
    /\ UNCHANGED <<pc, subscribed, use_sim_emg, game, buf, start_enabled, timer_active,
                   pending_shots, dialogs, board, last_call, form, real_elapsed>>

Next ==
    \/ setup_emgeniusclient
    \/ init_fields
    \/ load_leaderboard
    \/ handle_emg_data
    \/ append_fill
    \/ callback_raised
    \/ on_start_pressed
    \/ start_active_trial
    \/ update_game
    \/ simulate_emg
    \/ read_window
    \/ finish_game
    \/ clock
    \/ clock_set_back

Spec == Init /\ [][Next]_vars
-----------------------------------------------------------------------------
(* Progress: the clock only advances; the single-shot and tick timers fire, *)
(* the tick handler runs on, the callback thread finishes its append, the   *)
(* lock is eventually granted to the GUI thread, the dialog is eventually   *)
(* closed.  Start calls are the player's and are not forced.                *)
NextLive ==
    \/ setup_emgeniusclient
    \/ init_fields
    \/ load_leaderboard
    \/ handle_emg_data
    \/ append_fill
    \/ callback_raised
    \/ on_start_pressed
    \/ start_active_trial
    \/ update_game
    \/ simulate_emg
    \/ read_window
    \/ finish_game
    \/ clock

Fairness ==
    /\ WF_vars(start_active_trial)
    /\ WF_vars(update_game)
    /\ SF_vars(simulate_emg)
    /\ SF_vars(read_window)
    /\ WF_vars(append_fill)
    /\ WF_vars(finish_game)
    /\ WF_vars(clock)

SpecLive == Init /\ [][NextLive]_vars /\ Fairness

-----------------------------------------------------------------------------
(* _append_emg_samples as a function of the buffer and the samples: every   *)
(* buffer content, every batch                                              *)
InitAppend ==
    /\ pc = "loop"
    /\ subscribed = TRUE
    /\ use_sim_emg = TRUE
    /\ state = "idle"
    /\ current_try = 0
    /\ try_start_time = None
    /\ peak_this_try = 0
    /\ try_scores = << >>
    /\ emg_buffer \in [1..buffer_len -> AppendValues]
    /\ emg_lock = "free"
    /\ dev_pc = "idle"
    /\ dev_samples = << >>
    /\ start_enabled = TRUE
    /\ timer_active = FALSE
    /\ pending_shots = 0
    /\ dialogs = << >>
    /\ leaderboard = << >>
    /\ file = Missing
    /\ now = 0
    /\ last_call = [name |-> "load_leaderboard", at |-> "idle"]
    /\ form \in Forms
    /\ real_elapsed = 0

\* dev_samples keeps the batch that was appended
append_emg_samples ==
    /\ \E samples \in Batches :
          /\ dev_samples' = samples
          /\ emg_buffer' = AppendSamples(emg_buffer, samples)
    /\ UNCHANGED <<pc, subscribed, use_sim_emg, game, emg_lock, dev_pc, start_enabled,
                   timer_active, pending_shots, dialogs, board, now, form, real_elapsed, last_call>>

NextAppend == append_emg_samples

SpecAppend == InitAppend /\ [][NextAppend]_vars

-----------------------------------------------------------------------------
(* get_entry as a function of the two name fields: every pair of texts      *)
AllForms ==
    {[first |-> f, last |-> l] : f \in SeqsUpTo(Chars, MaxFirst), l \in SeqsUpTo(Chars, MaxLast)}

InitName ==
    /\ pc = "loop"
    /\ subscribed = FALSE
    /\ use_sim_emg = TRUE
    /\ state = "idle"
    /\ current_try = N_TRIES
    /\ try_start_time = None
    /\ peak_this_try = 0
    /\ try_scores \in {[i \in 1..N_TRIES |-> sc] : sc \in {Score(0), Score(MAX_EXPECTED_RMS)}}
    /\ emg_buffer = Zeros
    /\ emg_lock = "free"
    /\ dev_pc = "idle"
    /\ dev_samples = << >>
    /\ start_enabled = FALSE
    /\ timer_active = FALSE
    /\ pending_shots = 0
    /\ dialogs = <<Best(try_scores)>>
    /\ leaderboard = << >>
    /\ file = Missing
    /\ now = 0
    /\ last_call = [name |-> "update_game", at |-> "active"]
    /\ form \in AllForms
    /\ real_elapsed = 0

\* lines 291-292: the entry built from the form, appended
get_entry ==
    /\ dialogs # << >>
    /\ leaderboard' = Append(leaderboard,
                             Entry(DisplayName(form.first, form.last), dialogs[Len(dialogs)]))
    /\ dialogs' = SubSeq(dialogs, 1, Len(dialogs) - 1)
    /\ last_call' = Call("finish_game")
    /\ UNCHANGED <<pc, subscribed, use_sim_emg, game, buf, start_enabled, timer_active,
                   pending_shots, file, now, form, real_elapsed>>

NextName == get_entry

SpecName == InitName /\ [][NextName]_vars

-----------------------------------------------------------------------------
(* One Active trial over a given buffer, no producer: the estimator and the *)
(* score mapping over amplitudes below, between and above the two ends      *)
ScoreSamples == {0 - 300, 0, 1, 2, 3, 500, 999, 1000, 1001, 2000}

InitScore ==
    /\ pc = "loop"
    /\ subscribed = FALSE
    /\ use_sim_emg = FALSE
    /\ state = "active"
    /\ current_try = 1
    /\ try_start_time = 0
    /\ peak_this_try = 0
    /\ try_scores = << >>
    /\ emg_buffer \in [1..buffer_len -> ScoreSamples]
    /\ emg_lock = "free"
    /\ dev_pc = "idle"
    /\ dev_samples = << >>
    /\ start_enabled = FALSE
    /\ timer_active = TRUE
    /\ pending_shots = 0
    /\ dialogs = << >>
    /\ leaderboard = << >>
    /\ file = Missing
    /\ now = 0
    /\ last_call = [name |-> "start_active_trial", at |-> "countdown"]
    /\ form \in Forms
    /\ real_elapsed = 0

NextScore ==
    \/ update_game
    \/ read_window
    \/ clock

SpecScore == InitScore /\ [][NextScore]_vars

-----------------------------------------------------------------------------
(* Properties *)

\* a step of the GUI thread that enters the handler `name` from the event loop
\* (steps of the callback thread and of the clock change buf or now, or nothing)
GuiStep(name) ==
    /\ pc = "loop"
    /\ last_call'.name = name
    /\ UNCHANGED <<emg_buffer, emg_lock, dev_pc, dev_samples, now>>

Constructed == pc \notin {"setup", "fields"}

\* C1: no session runs more than N_TRIES trials: the trial ordinal never exceeds
\* N_TRIES and a session never holds more than N_TRIES peaks, whatever start
\* calls arrive, the ones arriving while the submission step is pending included.
C1_AtMostNTries == current_try <= N_TRIES /\ Len(try_scores) <= N_TRIES

\* C2: a start call that finds the controller in Countdown or Active changes
\* nothing of the game (state, ordinal, peak, start time, trial list), schedules
\* no second countdown and raises nothing.
C2_StartIgnoredUnlessIdle ==
    [][ /\ (GuiStep("on_start_pressed") /\ state # "idle") =>
              /\ UNCHANGED <<state, current_try, peak_this_try, try_start_time, try_scores>>
              /\ UNCHANGED <<pending_shots, start_enabled, timer_active>>
              /\ pc' = "loop"
        /\ pending_shots' <= 1 ]_vars

C2_Witness ==
    /\ last_call.name = "on_start_pressed"
    /\ last_call.at \in {"countdown", "active"}
    /\ state = last_call.at
    /\ pending_shots + (IF state = "active" THEN 1 ELSE 0) = 1

\* C3: the timeout fires once per trial: the first tick that finds
\* elapsed >= TRY_DURATION in Active appends the peak, stops the tick timer and
\* leaves Active; nothing else appends to the trial list; a tick outside Active
\* changes neither the list nor anything else of the game; recorded peaks are
\* never rewritten, only cleared as a whole.
C3_TimeoutOnce ==
    [][ /\ (GuiStep("update_game") /\ state = "active" /\ now - try_start_time >= TRY_DURATION) =>
              /\ try_scores' = Append(try_scores, peak_this_try)
              /\ ~timer_active'
              /\ state' = "idle"
        /\ (GuiStep("update_game") /\ state # "active") =>
              UNCHANGED <<state, current_try, peak_this_try, try_start_time, try_scores,
                          timer_active, dialogs>>
        /\ (try_scores' # try_scores /\ try_scores' # << >>) =>
              /\ GuiStep("update_game") /\ state = "active"
              /\ now - try_start_time >= TRY_DURATION
              /\ try_scores' = Append(try_scores, peak_this_try)
        /\ timer_active' = (state' = "active") ]_vars

C3_Witness ==
    /\ last_call = [name |-> "update_game", at |-> "idle"]
    /\ state = "idle"
    /\ current_try = 1
    /\ Len(try_scores) = 1
    /\ ~timer_active

\* C4: within one Active trial the peak never decreases: the window read sets
\* peak' = max(peak, score), and the peak drops (to 0) only on entry to Active.
C4_PeakMonotone ==
    [][ /\ (peak_this_try' < peak_this_try) =>
              (state # "active" /\ state' = "active" /\ peak_this_try' = 0)
        /\ (pc = "read" /\ pc' = "loop") =>
              LET score == Score(Rms(LastN(emg_buffer, win)))
              IN /\ peak_this_try' >= peak_this_try
                 /\ peak_this_try' >= score
                 /\ peak_this_try' \in {peak_this_try, score} ]_vars

\* without a device the buffer at the event loop is the one the last tick read
C4_Witness ==
    /\ ~subscribed
    /\ pc = "loop"
    /\ state = "active"
    /\ last_call = [name |-> "update_game", at |-> "active"]
    /\ Score(Rms(LastN(emg_buffer, win))) < peak_this_try

\* C5: once the submission step of a completed session has returned, whatever
\* its outcome, the controller is in Idle with the session cleared: ordinal 0,
\* no recorded peaks, start control enabled.
C5_ResetWhateverOutcome ==
    (last_call = [name |-> "finish_game", at |-> "idle"]) =>
        /\ pc # "crashed"
        /\ state = "idle"
        /\ current_try = 0
        /\ try_scores = << >>
        /\ start_enabled

\* C6: once created, the sample buffer holds exactly buffer_len samples, between
\* the two halves of an append included.
C6_BufferLength == (emg_lock # "none") => Len(emg_buffer) = buffer_len

C6_Witness ==
    /\ subscribed
    /\ dev_pc = "rolled"
    /\ pc = "read"
    /\ state = "active"
    /\ Len(emg_buffer) = buffer_len
\* C7: after an append the buffer is the last buffer_len elements of the old
\* buffer followed by the samples: unchanged by an empty batch, the last
\* buffer_len - k old samples then the k new ones for k < buffer_len, the last
\* buffer_len new samples otherwise.
C7_AppendKeepsLast ==
    [][ LET old == emg_buffer
            s == dev_samples'
            k == Len(s)
        IN /\ Len(emg_buffer') = buffer_len
           /\ \A i \in 1..buffer_len : emg_buffer'[i] = (old \o s)[k + i]
           /\ (k = 0) => emg_buffer' = old
           /\ (0 < k /\ k < buffer_len) =>
                 /\ \A i \in 1..(buffer_len - k) : emg_buffer'[i] = old[i + k]
                 /\ \A i \in 1..k : emg_buffer'[buffer_len - k + i] = s[i]
           /\ (k >= buffer_len) =>
                 \A i \in 1..buffer_len : emg_buffer'[i] = s[k - buffer_len + i] ]_vars

\* one new sample behind the newest old one, the oldest dropped
C7_Witness ==
    /\ Len(dev_samples) = 1
    /\ buffer_len > 1
    /\ emg_buffer[buffer_len] = dev_samples[1]
    /\ emg_buffer[buffer_len] # emg_buffer[buffer_len - 1]

\* C8: appends and the window read exclude each other: the GUI thread reads the
\* window, and appends its simulated chunk, only while the callback thread is
\* not between the shift and the fill of an append, and the callback thread
\* does both under the lock.
C8_ReadExcludesAppend ==
    [][ /\ (pc = "read" /\ pc' = "loop") => (dev_pc # "rolled" /\ dev_pc' # "rolled")
        /\ (pc = "sim" /\ pc' = "read") => (dev_pc # "rolled" /\ dev_pc' # "rolled")
        /\ (dev_pc' = "rolled") => emg_lock' = "dev" ]_vars

\* the consumer is at its read while the producer is in the middle of an append
C8_Witness ==
    /\ pc = "read"
    /\ dev_pc = "rolled"
    /\ emg_lock = "dev"

SortedDesc(lb) == \A i \in 1..(Len(lb) - 1) : lb[i].score >= lb[i + 1].score

\* the entries of lb with score v, in order
WithScore(lb, v) == LET Has(e) == e.score = v IN SelectSeq(lb, Has)

\* new is src sorted descending by score, entries of equal score in src's order
StableSortOf(new, src) ==
    /\ Len(new) = Len(src)
    /\ SortedDesc(new)
    /\ \A v \in {src[i].score : i \in 1..Len(src)} : WithScore(new, v) = WithScore(src, v)

\* C9: whenever the in-memory leaderboard changes, by the load or by an accepted
\* submission, the result is sorted descending by score with equal scores in
\* insertion order (the new entry after the entries it ties with).
C9_SortedAfterAppendAndLoad ==
    [][ (leaderboard' # leaderboard) =>
          \/ /\ pc = "load"
             /\ StableSortOf(leaderboard', IF file.status = "ok" THEN file.data ELSE << >>)
          \/ /\ GuiStep("finish_game")
             /\ \E nm \in Names :
                  StableSortOf(leaderboard',
                               Append(leaderboard, Entry(nm, dialogs[Len(dialogs)]))) ]_vars

\* C10: what an append writes to storage is the re-sorted collection: the
\* pickled sequence is the in-memory one and is sorted descending by score.
C10_PersistedSorted ==
    [][ (file' # file /\ file'.status = "ok") =>
          (file'.data = leaderboard' /\ SortedDesc(file'.data)) ]_vars

-----------------------------------------------------------------------------
\* C11: loading when leaderboard.pkl is missing or cannot be unpickled raises
\* nothing and yields the empty leaderboard: the load step ends in the event
\* loop with leaderboard = << >>, the controller Idle with an empty session and
\* the start control enabled, and a start call made then is accepted.
C11_LoadFailureYieldsEmpty ==
    [][ /\ (pc = "load" /\ pc' # "load" /\ file.status \in {"missing", "corrupt"}) =>
              /\ leaderboard' = << >>
              /\ pc' = "loop"
              /\ state' = "idle" /\ current_try' = 0 /\ try_scores' = << >>
              /\ start_enabled'
              /\ file' = file
        /\ (GuiStep("on_start_pressed") /\ last_call.name = "load_leaderboard") =>
              (state' = "countdown" /\ current_try' = 1) ]_vars

\* a first trial running after a load that found an unreadable file
C11_Witness ==
    /\ file.status = "corrupt"
    /\ pc = "loop"
    /\ leaderboard = << >>
    /\ state = "active"
    /\ current_try = 1

-----------------------------------------------------------------------------
\* a finish_game step that appended an entry and did not get it into the file
SaveFailed ==
    /\ GuiStep("finish_game")
    /\ leaderboard' # leaderboard
    /\ (file'.status # "ok" \/ Len(file'.data) # Len(leaderboard'))

\* C12: when the write fails during an accepted submission, the slot does not
\* die and the in-memory leaderboard is left intact: it holds the old entries
\* and the new one, sorted descending by score.
C12_SaveFailureKeepsBoard ==
    [][ SaveFailed =>
          /\ pc' # "crashed"
          /\ \E nm \in Names :
               StableSortOf(leaderboard',
                            Append(leaderboard, Entry(nm, dialogs[Len(dialogs)]))) ]_vars

-----------------------------------------------------------------------------
\* the letters get_entry keeps of the two fields, and the ones it takes
KeptFirst == SelectSeq(form.first, IsAlpha)
KeptLast == SelectSeq(form.last, IsAlpha)
Taken ==
    <<IF KeptFirst = << >> THEN "X" ELSE KeptFirst[1]>>
        \o (IF KeptLast = << >> THEN <<"A", "n", "o">> ELSE FirstN(KeptLast, 3))

-----------------------------------------------------------------------------
\* C14: the score mapping is clamped at both ends: a window whose RMS is at
\* most BASELINE_RMS scores 0, one whose RMS is at least MAX_EXPECTED_RMS scores
\* 1000, every score is an integer in 0..1000, and so are the peak and every
\* recorded trial score.
C14_ScoreClamped ==
    [][ /\ (pc = "read" /\ pc' = "loop") =>
              LET r == Rms(LastN(emg_buffer, win))
              IN /\ (r <= BASELINE_RMS) => (Score(r) = 0 /\ peak_this_try' = peak_this_try)
                 /\ (r >= MAX_EXPECTED_RMS) => (Score(r) = 1000 /\ peak_this_try' = 1000)
                 /\ Score(r) \in 0..1000
        /\ peak_this_try' \in 0..1000
        /\ \A i \in 1..Len(try_scores') : try_scores'[i] \in 0..1000 ]_vars

\* a trial recorded at full score from a window above MAX_EXPECTED_RMS
C14_Witness ==
    /\ try_scores = <<1000>>
    /\ state = "idle"
    /\ Rms(LastN(emg_buffer, win)) > MAX_EXPECTED_RMS

-----------------------------------------------------------------------------
\* C15: the timeout follows the time that really elapsed since Active entry,
\* whatever the clock the code reads does between ticks: a tick arriving in
\* Active when TRY_DURATION or more has really elapsed completes the trial (it
\* records the peak and leaves Active) and does not go on to score a window.
C15_TimeoutFollowsRealTime ==
    [][ (GuiStep("update_game") /\ state = "active" /\ real_elapsed >= TRY_DURATION) =>
          /\ state' = "idle"
          /\ try_scores' = Append(try_scores, peak_this_try)
          /\ pc' \notin {"sim", "read"} ]_vars

-----------------------------------------------------------------------------
\* C16: a tick outside Active (Idle, Countdown, after the trial completed) has
\* no game effect: state, peak, ordinal, start time, trial list, tick timer and
\* buffer are unchanged and the handler returns without simulating or scoring;
\* throughout Countdown the tick handler is never past its guard and the peak
\* does not move.
C16_TickOutsideActiveNoOp ==
    [][ /\ (GuiStep("update_game") /\ state # "active") =>
              /\ UNCHANGED <<state, current_try, peak_this_try, try_start_time, try_scores>>
              /\ UNCHANGED <<timer_active, dialogs, start_enabled, emg_buffer, board>>
              /\ pc' = "loop"
        /\ (state = "countdown") => pc \notin {"sim", "read"}
        /\ (state = "countdown" /\ state' = "countdown") => peak_this_try' = peak_this_try ]_vars

\* a tick taken during the countdown of the second trial, the first peak on record
C16_Witness ==
    /\ last_call = [name |-> "update_game", at |-> "countdown"]
    /\ state = "countdown"
    /\ pending_shots = 1
    /\ current_try = 2
    /\ try_scores = <<1000>>

-----------------------------------------------------------------------------
\* C17: no delivery of a non-empty batch, at any moment from the subscription
\* on, finds the buffer or its lock missing: there is no state in which the
\* callback has raised for want of them.
C17_CallbackFindsBuffer == dev_pc # "raised"

-----------------------------------------------------------------------------
\* C18: the buffer has one sample source at a time: once __init__ has returned,
\* use_sim_emg is off exactly when a device was subscribed, and no tick appends
\* a simulated chunk while a device is subscribed.
C18_SingleSource ==
    /\ (pc \notin {"setup", "fields", "load"}) => (use_sim_emg = ~subscribed)
    /\ (pc = "sim") => ~subscribed

-----------------------------------------------------------------------------
\* C19: the trial ordinal and the trial list agree in every state: the ordinal
\* is within 0..N_TRIES; in Idle the list holds as many peaks as the ordinal, in
\* Countdown and Active one fewer; a pending submission step was entered with
\* exactly N_TRIES peaks, and its best score is the maximum of that list.
C19_OrdinalMatchesList ==
    /\ current_try \in 0..N_TRIES
    /\ (state = "idle") => Len(try_scores) = current_try
    /\ (state \in {"countdown", "active"}) => Len(try_scores) = current_try - 1
    /\ (dialogs # << >>) =>
          /\ Len(try_scores) = N_TRIES
          /\ dialogs[Len(dialogs)] = SeqMax(try_scores)

-----------------------------------------------------------------------------
\* C20: progress under fair timers and an advancing clock: a countdown leads to
\* Active; an Active trial whose deadline the clock can still reach leads back
\* to Idle with a peak on record; and once the submission step has returned the
\* controller is eventually in Idle with an empty session and the start control
\* enabled.
C20_Progress ==
    /\ [](state = "countdown" => <>(state = "active"))
    /\ []((state = "active" /\ try_start_time + TRY_DURATION <= MaxTime) =>
             <>(state = "idle" /\ Len(try_scores) > 0))
    /\ [](last_call.name = "finish_game" =>
             <>(state = "idle" /\ current_try = 0 /\ try_scores = << >> /\ start_enabled))
====
